---- MODULE Spec2Model ----
(***************************************************************************)
(* A model of amp's key map (src/input/key_map/mod.rs): the key-token      *)
(* parser parse_key, the construction of a KeyMap from a Yaml tree         *)
(* (KeyMap::from, parse_mode_key_bindings), the lookup KeyMap::command_for *)
(* and KeyMap::merge.                                                      *)
(*                                                                         *)
(* A &str is modelled as the sequence of its characters (one-character     *)
(* strings) wherever the code looks inside it (key tokens); mode names and *)
(* command names, which the code only compares and hashes, are strings.    *)
(***************************************************************************)
EXTENDS Naturals, Sequences, FiniteSets, TLC

VARIABLES
    token,    \* SpecParse: the &str handed to parse_key
    parsed,   \* SpecParse: the Result<Key> parse_key returned, or Unparsed
    doc,      \* SpecFrom: the Yaml tree handed to KeyMap::from
    built,    \* SpecFrom: the Result<KeyMap> KeyMap::from returned, or Unbuilt
    keymap,   \* Spec, SpecMerge: the receiver, a HashMap<String, HashMap<Key, Command>>
    last,     \* Spec, SpecMerge: the last operation on the receiver, with the
              \* arguments and the result of a lookup
    modes0,   \* Spec (history): the mode names the receiver had after construction
    latest,   \* Spec (history): per mode of modes0 and key, the latest writer's command
    dropped,  \* Spec (history): the (mode, key) bindings merges have discarded
    other,    \* SpecMerge: the key map handed to merge
    old       \* SpecMerge (history): the receiver before the merge

vars == <<token, parsed, doc, built, keymap, last, modes0, latest, dropped,
          other, old>>

\* the variables of the specifications that are not running
Idle == [idle |-> TRUE]

KeyMapIdle ==
    /\ keymap = Idle /\ last = Idle /\ modes0 = {} /\ latest = Idle
    /\ dropped = {} /\ other = Idle /\ old = Idle

(***************************************************************************)
(* Bounds of the model.                                                    *)
(***************************************************************************)
\* longest key token (or modifier suffix) drawn freely over Alphabet
MaxTokenLen == 3
\* SpecFrom: most modes, and most (key, command) pairs over all its modes,
\* in the Yaml document handed to KeyMap::from
MaxDocModes == 2
MaxDocPairs == 2
\* Spec: most pairs in the document the receiver is built from, and in a
\* document whose key map is merged into the receiver
MaxReceiverPairs == 2
MaxOtherPairs == 2

(***************************************************************************)
(* Result<T> and Option<T>.                                                *)
(***************************************************************************)
Ok(v) == [ok |-> TRUE, val |-> v]

Err(e) == [ok |-> FALSE, err |-> e]

Some(v) == <<v>>

None == <<>>

\* An error (error_chain) is a chain of messages, the outermost context first;
\* a message is the sequence of the pieces it is formatted from.
Error(message) == <<message>>

(***************************************************************************)
(* input::Key, as far as this file uses it: Char(c), Ctrl(c), AnyChar and  *)
(* the named keys.  Equality and hashing are by variant and payload.       *)
(***************************************************************************)
Char(c) == [kind |-> "Char", ch |-> c]

Ctrl(c) == [kind |-> "Ctrl", ch |-> c]

Named(k) == [kind |-> k, ch |-> ""]

AnyChar == Named("AnyChar")

(***************************************************************************)
(* parse_key                                                               *)
(***************************************************************************)
\* str::split("-"): every "-" separates; n separators give n+1 components,
\* empty ones included ("" gives one empty component).
RECURSIVE SplitFrom(_, _, _)
SplitFrom(data, i, current) ==
    IF i > Len(data) THEN <<current>>
    ELSE IF data[i] = "-" THEN <<current>> \o SplitFrom(data, i + 1, <<>>)
    ELSE SplitFrom(data, i + 1, Append(current, data[i]))

Split(data) == SplitFrom(data, 1, <<>>)

\* The keyword arms of the match, lines 170-185: (pattern, key).
KeywordArms ==
    << << <<"s","p","a","c","e">>,                 Char(" ") >>,
       << <<"b","a","c","k","s","p","a","c","e">>, Named("Backspace") >>,
       << <<"l","e","f","t">>,                     Named("Left") >>,
       << <<"r","i","g","h","t">>,                 Named("Right") >>,
       << <<"u","p">>,                             Named("Up") >>,
       << <<"d","o","w","n">>,                     Named("Down") >>,
       << <<"h","o","m","e">>,                     Named("Home") >>,
       << <<"e","n","d">>,                         Named("End") >>,
       << <<"p","a","g","e","_","u","p">>,         Named("PageUp") >>,
       << <<"p","a","g","e","_","d","o","w","n">>, Named("PageDown") >>,
       << <<"d","e","l","e","t","e">>,             Named("Delete") >>,
       << <<"i","n","s","e","r","t">>,             Named("Insert") >>,
       << <<"e","s","c","a","p","e">>,             Named("Esc") >>,
       << <<"t","a","b">>,                         Named("Tab") >>,
       << <<"e","n","t","e","r">>,                 Named("Enter") >>,
       << <<"_">>,                                 AnyChar >> >>

IsPrefix(s, t) == Len(s) <= Len(t) /\ SubSeq(t, 1, Len(s)) = s

\* A faulty match: an arm matches every prefix of its keyword.
RECURSIVE MatchArmByPrefix(_, _)
MatchArmByPrefix(component, i) ==
    IF i > Len(KeywordArms) THEN None
    ELSE IF IsPrefix(component, KeywordArms[i][1]) THEN Some(KeywordArms[i][2])
    ELSE MatchArmByPrefix(component, i + 1)

\* The match on the component: the first arm whose pattern equals it.
RECURSIVE MatchArm(_, _)
MatchArm(component, i) ==
    IF i > Len(KeywordArms) THEN None
    ELSE IF KeywordArms[i][1] = component THEN Some(KeywordArms[i][2])
    ELSE MatchArm(component, i + 1)

\* key.chars().nth(0)
FirstChar(s) == IF Len(s) = 0 THEN None ELSE Some(s[1])

InvalidKey(s) == <<"Keymap key \"", s, "\" is invalid">>

InvalidModifier(s) == <<"Keymap modifier \"", s, "\" is invalid">>

CtrlModifier == <<"c","t","r","l">>

\* The modifier-qualified branch, lines 155-166.
ParseModified(component, key) ==
    IF FirstChar(key) = None THEN Err(Error(InvalidKey(key)))
    ELSE IF component = CtrlModifier THEN Ok(Ctrl(FirstChar(key)[1]))
    ELSE Err(Error(InvalidModifier(component)))

\* A faulty unmodified branch: no fallback arm, a non-keyword is an error.
ParseUnmodifiedNoFallback(component) ==
    IF MatchArm(component, 1) # None THEN Ok(MatchArm(component, 1)[1])
    ELSE Err(Error(InvalidKey(component)))

\* The unmodified branch, lines 167-193.
ParseUnmodified(component) ==
    IF MatchArm(component, 1) # None THEN Ok(MatchArm(component, 1)[1])
    ELSE IF FirstChar(component) = None THEN Err(Error(InvalidKey(component)))
    ELSE Ok(Char(FirstChar(component)[1]))

\* parse_key: the first two components of the split decide; split always
\* yields a first component, so the "empty string" error of line 152 cannot
\* occur.
parse_key(data) ==
    LET key_components == Split(data)
        component == key_components[1]
    IN  IF Len(key_components) >= 2
        THEN ParseModified(component, key_components[2])
        ELSE ParseUnmodified(component)

(***************************************************************************)
(* The tokens parse_key is applied to.                                     *)
(***************************************************************************)
Alphabet == {"-", "_", "r", "k"}

RECURSIVE SeqsUpTo(_, _)
SeqsUpTo(S, n) ==
    IF n = 0 THEN {<<>>}
    ELSE LET shorter == SeqsUpTo(S, n - 1)
         IN  shorter \cup {Append(s, c) : s \in shorter, c \in S}

FreeTokens == SeqsUpTo(Alphabet, MaxTokenLen)

OneCharTokens == {<<c>> : c \in Alphabet \cup {"a", "j", "S", " ", "1", "+"}}

KeywordTokens == {KeywordArms[i][1] : i \in 1..Len(KeywordArms)}

\* near misses of the keywords: other case, a prefix, a longer word
NearKeywordTokens ==
    { <<"S","p","a","c","e">>, <<"L","E","F","T">>, <<"l","e","f">>,
      <<"l","e","f","t","s">>, <<"p","a","g","e">>, <<"E","n","t","e","r">>,
      <<"u">>, <<"t","a","b","s">>, <<"c","t","r","l">> }

Modifiers == {CtrlModifier, <<"a","l","t">>, <<"C","t","r","l">>, <<"p","a","g","e">>}

ModifiedTokens == {m \o <<"-">> \o s : m \in Modifiers, s \in FreeTokens}

Tokens ==
    FreeTokens \cup OneCharTokens \cup KeywordTokens \cup NearKeywordTokens
        \cup ModifiedTokens

Unparsed == [pending |-> TRUE]

InitParse ==
    /\ token \in Tokens
    /\ parsed = Unparsed
    /\ doc = Idle /\ built = Idle
    /\ KeyMapIdle

ParseKey ==
    /\ parsed = Unparsed
    /\ parsed' = parse_key(token)
    /\ UNCHANGED <<token, doc, built, keymap, last, modes0, latest, dropped,
                   other, old>>

NextParse == ParseKey

SpecParse == InitParse /\ [][NextParse]_vars

(***************************************************************************)
(* Properties of parse_key (checked under SpecParse).                      *)
(***************************************************************************)
HasDash(data) == \E i \in 1..Len(data) : data[i] = "-"

\* the position of the first "-" of a token that has one
FirstDash(data) ==
    CHOOSE i \in 1..Len(data) :
        data[i] = "-" /\ \A j \in 1..(i - 1) : data[j] # "-"

PrefixOf(data) == SubSeq(data, 1, FirstDash(data) - 1)

\* all text after the first "-", further "-" characters included
SuffixOf(data) == SubSeq(data, FirstDash(data) + 1, Len(data))

\* C6 as stated: every one-character token other than "_" parses to the
\* plain-character key of that same character.
C6_EveryOneCharTokenIsChar ==
    (parsed # Unparsed /\ Len(token) = 1 /\ token # <<"_">>)
        => parsed = Ok(Char(token[1]))

\* C6 (amended): every one-character token other than "_" and "-" parses to
\* the plain-character key of that same character.
C6_OneCharTokenIsChar ==
    (parsed # Unparsed /\ Len(token) = 1 /\ token \notin {<<"_">>, <<"-">>})
        => parsed = Ok(Char(token[1]))

C6_Witness ==
    /\ token = <<"S">>
    /\ parsed = Ok(Char("S"))

\* C7: the token is split on its first "-" only; with prefix ctrl and a
\* non-empty suffix (everything after the first "-") the result is Ctrl of the
\* suffix's first character; ctrl with an empty suffix fails; any other prefix
\* fails.
C7_CtrlSplitsOnFirstDash ==
    (parsed # Unparsed /\ HasDash(token)) =>
        /\ (PrefixOf(token) = CtrlModifier /\ SuffixOf(token) # <<>>)
               => parsed = Ok(Ctrl(SuffixOf(token)[1]))
        /\ (PrefixOf(token) = CtrlModifier /\ SuffixOf(token) = <<>>)
               => ~parsed.ok
        /\ PrefixOf(token) # CtrlModifier => ~parsed.ok

\* the keyword table as C8 states it
ClaimedKeywords ==
    { << <<"s","p","a","c","e">>,                 Char(" ") >>,
      << <<"b","a","c","k","s","p","a","c","e">>, Named("Backspace") >>,
      << <<"l","e","f","t">>,                     Named("Left") >>,
      << <<"r","i","g","h","t">>,                 Named("Right") >>,
      << <<"u","p">>,                             Named("Up") >>,
      << <<"d","o","w","n">>,                     Named("Down") >>,
      << <<"h","o","m","e">>,                     Named("Home") >>,
      << <<"e","n","d">>,                         Named("End") >>,
      << <<"p","a","g","e","_","u","p">>,         Named("PageUp") >>,
      << <<"p","a","g","e","_","d","o","w","n">>, Named("PageDown") >>,
      << <<"d","e","l","e","t","e">>,             Named("Delete") >>,
      << <<"i","n","s","e","r","t">>,             Named("Insert") >>,
      << <<"e","s","c","a","p","e">>,             Named("Esc") >>,
      << <<"t","a","b">>,                         Named("Tab") >>,
      << <<"e","n","t","e","r">>,                 Named("Enter") >>,
      << <<"_">>,                                 Named("AnyChar") >> }

\* C8: a token without "-" that is exactly (case-sensitively) a keyword parses
\* to that keyword's key, "_" to AnyChar; any other non-empty token parses to
\* Char of its first character; the empty token fails.
C8_KeywordsThenFirstChar ==
    (parsed # Unparsed /\ ~HasDash(token)) =>
        /\ \A kw \in ClaimedKeywords : token = kw[1] => parsed = Ok(kw[2])
        /\ ((\A kw \in ClaimedKeywords : token # kw[1]) /\ token # <<>>)
               => parsed = Ok(Char(token[1]))
        /\ token = <<>> => ~parsed.ok

C8_Witness ==
    /\ token = <<"L","E","F","T">>
    /\ parsed = Ok(Char("L"))

(***************************************************************************)
(* The Yaml tree (yaml::Yaml), as far as KeyMap::from reads it: strings,   *)
(* hashes (a LinkedHashMap: distinct keys, iterated in document order) and *)
(* other scalars.                                                          *)
(***************************************************************************)
YStr(s) == [tag |-> "String", s |-> s]

YInt == [tag |-> "Integer"]

YHash(entries) == [tag |-> "Hash", entries |-> entries]

as_str(y) == IF y.tag = "String" THEN Some(y.s) ELSE None

as_hash(y) == IF y.tag = "Hash" THEN Some(y.entries) ELSE None

(***************************************************************************)
(* HashMap: a function on the set of its keys.                             *)
(***************************************************************************)
EmptyMap == [x \in {} |-> x]

\* A faulty insert: the value of a key present is kept.
insert_keeping(map, key, value) ==
    [x \in (DOMAIN map) \cup {key} |-> IF x \in DOMAIN map THEN map[x] ELSE value]

\* HashMap::insert: adds the entry, replacing the value of a key present
insert(map, key, value) ==
    [x \in (DOMAIN map) \cup {key} |-> IF x = key THEN value ELSE map[x]]

\* HashMap::get
get(map, key) == IF key \in DOMAIN map THEN Some(map[key]) ELSE None

(***************************************************************************)
(* commands::hash_map(): the registry of command names.                    *)
(***************************************************************************)
commands_hash_map ==
    [name \in {"cursor::move_up", "cursor::move_down",
               "cursor::move_left", "cursor::move_right"} |->
        CASE name = "cursor::move_up"    -> "commands::cursor::move_up"
          [] name = "cursor::move_down"  -> "commands::cursor::move_down"
          [] name = "cursor::move_left"  -> "commands::cursor::move_left"
          [] name = "cursor::move_right" -> "commands::cursor::move_right"]

\* ResultExt::chain_err: an error gets the context as its outermost message
chain_err(result, context) ==
    IF result.ok THEN result ELSE Err(<<context>> \o result.err)

(***************************************************************************)
(* parse_mode_key_bindings                                                 *)
(***************************************************************************)
\* A faulty loop: a pair whose command the registry lacks is skipped, not an
\* error.
RECURSIVE ParsePairsSkippingUnknown(_, _, _, _)
ParsePairsSkippingUnknown(mode_key_bindings, i, key_bindings, commands) ==
    IF i > Len(mode_key_bindings) THEN Ok(key_bindings)
    ELSE
        LET yaml_key == mode_key_bindings[i][1]
            yaml_command == mode_key_bindings[i][2]
        IN  IF as_str(yaml_key) = None
            THEN Err(Error(<<"A keymap key couldn't be parsed as a string">>))
            ELSE IF ~parse_key(as_str(yaml_key)[1]).ok
            THEN parse_key(as_str(yaml_key)[1])
            ELSE IF as_str(yaml_command) = None
            THEN Err(Error(<<"A keymap command couldn't be parsed as a string">>))
            ELSE IF as_str(yaml_command)[1] \notin DOMAIN commands
            THEN ParsePairsSkippingUnknown(mode_key_bindings, i + 1,
                     key_bindings, commands)
            ELSE ParsePairsSkippingUnknown(mode_key_bindings, i + 1,
                     insert(key_bindings,
                            parse_key(as_str(yaml_key)[1]).val,
                            commands[as_str(yaml_command)[1]]),
                     commands)

\* The loop of lines 121-138 from pair i on: the first failing `?` returns.
RECURSIVE ParsePairsFrom(_, _, _, _)
ParsePairsFrom(mode_key_bindings, i, key_bindings, commands) ==
    IF i > Len(mode_key_bindings) THEN Ok(key_bindings)
    ELSE
        LET yaml_key == mode_key_bindings[i][1]
            yaml_command == mode_key_bindings[i][2]
        IN  IF as_str(yaml_key) = None
            THEN Err(Error(<<"A keymap key couldn't be parsed as a string">>))
            ELSE IF ~parse_key(as_str(yaml_key)[1]).ok
            THEN parse_key(as_str(yaml_key)[1])
            ELSE IF as_str(yaml_command) = None
            THEN Err(Error(<<"A keymap command couldn't be parsed as a string">>))
            ELSE IF as_str(yaml_command)[1] \notin DOMAIN commands
            THEN Err(Error(<<"Keymap command \"", as_str(yaml_command)[1],
                             "\" doesn't exist">>))
            ELSE ParsePairsFrom(mode_key_bindings, i + 1,
                     insert(key_bindings,
                            parse_key(as_str(yaml_key)[1]).val,
                            commands[as_str(yaml_command)[1]]),
                     commands)

parse_mode_key_bindings(mode, commands) ==
    IF as_hash(mode) = None
    THEN Err(Error(<<"Keymap mode config didn't return a hash of key bindings">>))
    ELSE ParsePairsFrom(as_hash(mode)[1], 1, EmptyMap, commands)

(***************************************************************************)
(* KeyMap::from                                                            *)
(***************************************************************************)
\* The context of line 36: a string literal, which nothing formats.
ModeContext(mode) == <<"Failed to parse keymaps for \"{}\" mode">>

\* The loop of lines 31-39 from mode i on.
RECURSIVE FromModes(_, _, _, _)
FromModes(modes, i, table, commands) ==
    IF i > Len(modes) THEN Ok(table)
    ELSE
        LET yaml_mode == modes[i][1]
            yaml_key_bindings == modes[i][2]
            key_bindings ==
                chain_err(parse_mode_key_bindings(yaml_key_bindings, commands),
                          ModeContext(as_str(yaml_mode)[1]))
        IN  IF as_str(yaml_mode) = None
            THEN Err(Error(<<"A mode key couldn't be parsed as a string">>))
            ELSE IF ~key_bindings.ok THEN key_bindings
            ELSE FromModes(modes, i + 1,
                     insert(table, as_str(yaml_mode)[1], key_bindings.val),
                     commands)

From(keymap_data) ==
    IF as_hash(keymap_data) = None
    THEN Err(Error(<<"Keymap config didn't return a hash of modes">>))
    ELSE FromModes(as_hash(keymap_data)[1], 1, EmptyMap, commands_hash_map)

(***************************************************************************)
(* Yaml documents of bounded size.                                         *)
(***************************************************************************)
KeysOf(entries) == {entries[i][1] : i \in 1..Len(entries)}

\* the sequences of exactly n (key, value) pairs with distinct keys
RECURSIVE PairSeqs(_, _, _)
PairSeqs(pairKeys, pairValues, n) ==
    IF n = 0 THEN {<<>>}
    ELSE LET shorter == PairSeqs(pairKeys, pairValues, n - 1)
         IN  UNION { {Append(ps, <<k, v>>) :
                          k \in pairKeys \ KeysOf(ps), v \in pairValues}
                     : ps \in shorter }

\* the values a mode key can have with exactly n pairs; a scalar has none
ModeValues(scalars, pairKeys, pairValues, n) ==
    {YHash(ps) : ps \in PairSeqs(pairKeys, pairValues, n)}
        \cup (IF n = 0 THEN scalars ELSE {})

DocModeKeys == {YStr("normal"), YStr("insert"), YInt}

\* mode values that are no hash
DocScalars == {YStr("cursor::move_up")}

DocPairKeys ==
    {YStr(<<"k">>), YStr(<<"k","k">>), YStr(<<"c","t","r","l","-","r">>),
     YStr(<<"c","t","r","l","-">>), YInt}

DocPairValues == {YStr("cursor::move_up"), YStr("cursor::move_down"),
                  YStr("cursor::nope"), YInt}

\* doc is a hash whose mode entries extend `modes` by at most m modes with
\* further distinct keys and at most n pairs over all of them.
RECURSIVE DocExtends(_, _, _)
DocExtends(modes, m, n) ==
    \/ doc = YHash(modes)
    \/ /\ m > 0
       /\ \E j \in 0..n :
          \E mk \in DocModeKeys \ KeysOf(modes) :
          \E mv \in ModeValues(DocScalars, DocPairKeys, DocPairValues, j) :
              DocExtends(Append(modes, <<mk, mv>>), m - 1, n - j)

Unbuilt == [pending |-> TRUE]

\* The documents KeyMap::from is applied to: a scalar, or a hash of at most
\* MaxDocModes modes holding at most MaxDocPairs pairs.
InitFrom ==
    /\ \/ doc = YInt
       \/ DocExtends(<<>>, MaxDocModes, MaxDocPairs)
    /\ built = Unbuilt
    /\ token = Idle /\ parsed = Idle
    /\ KeyMapIdle

FromDoc ==
    /\ built = Unbuilt
    /\ built' = From(doc)
    /\ UNCHANGED <<token, parsed, doc, keymap, last, modes0, latest, dropped,
                   other, old>>

NextFrom == FromDoc

SpecFrom == InitFrom /\ [][NextFrom]_vars

(***************************************************************************)
(* Properties of KeyMap::from (checked under SpecFrom).                    *)
(***************************************************************************)
\* a (key-token, command-name) pair that cannot become a binding
BadPair(pair) ==
    \/ as_str(pair[1]) = None
    \/ as_str(pair[2]) = None
    \/ /\ as_str(pair[1]) # None
       /\ ~parse_key(as_str(pair[1])[1]).ok
    \/ /\ as_str(pair[2]) # None
       /\ as_str(pair[2])[1] \notin DOMAIN commands_hash_map

\* a mode whose value is no mapping or holds a bad pair
BadMode(entry) ==
    \/ as_hash(entry[2]) = None
    \/ /\ as_hash(entry[2]) # None
       /\ \E i \in 1..Len(as_hash(entry[2])[1]) : BadPair(as_hash(entry[2])[1][i])

BadEntry(entry) == as_str(entry[1]) = None \/ BadMode(entry)

Offending(d) ==
    \/ as_hash(d) = None
    \/ /\ as_hash(d) # None
       /\ \E i \in 1..Len(as_hash(d)[1]) : BadEntry(as_hash(d)[1][i])

\* C5: construction is all-or-nothing: a document with any bad pair, any
\* non-mapping mode value (or a non-string mode key, or no top-level mapping)
\* yields an error and no table.
C5_AllOrNothing ==
    (built # Unbuilt /\ Offending(doc)) =>
        (~built.ok /\ "val" \notin DOMAIN built)

\* a first pair that binds, then a pair whose command is unknown
C5_Witness ==
    /\ doc = YHash(<< <<YStr("normal"),
                        YHash(<< <<YStr(<<"k">>), YStr("cursor::move_up")>>,
                                 <<YStr(<<"k","k">>), YStr("cursor::nope")>> >>)>> >>)
    /\ built # Unbuilt
    /\ ~built.ok

Pieces(message) == {message[i] : i \in 1..Len(message)}

\* C10: when construction fails in the sub-mapping of mode m (the first bad
\* entry of the document has m as its key), the outermost context of the error
\* names m.
C10_ContextNamesMode ==
    (built # Unbuilt /\ as_hash(doc) # None) =>
        \A i \in 1..Len(as_hash(doc)[1]) :
            LET modes == as_hash(doc)[1]
            IN  ( /\ \A j \in 1..(i - 1) : ~BadEntry(modes[j])
                  /\ as_str(modes[i][1]) # None
                  /\ BadMode(modes[i]) )
                => ( /\ ~built.ok
                     /\ as_str(modes[i][1])[1] \in Pieces(built.err[1]) )

(***************************************************************************)
(* KeyMap::command_for                                                     *)
(***************************************************************************)
\* A faulty lookup: the wildcard binding is tried before the character's own.
command_for_wildcard_first(self, mode, key) ==
    IF get(self, mode) = None THEN None
    ELSE LET mode_keymap == get(self, mode)[1]
         IN  IF key.kind = "Char"
             THEN IF get(mode_keymap, AnyChar) # None
                  THEN get(mode_keymap, AnyChar)
                  ELSE get(mode_keymap, key)
             ELSE get(mode_keymap, key)

\* A faulty lookup: every key falls back to the wildcard binding, not only
\* Char(_).
command_for_any_key_falls_back(self, mode, key) ==
    IF get(self, mode) = None THEN None
    ELSE LET mode_keymap == get(self, mode)[1]
         IN  IF get(mode_keymap, key) # None
             THEN get(mode_keymap, key)
             ELSE get(mode_keymap, AnyChar)

command_for(self, mode, key) ==
    IF get(self, mode) = None THEN None
    ELSE LET mode_keymap == get(self, mode)[1]
         IN  IF key.kind = "Char"
             THEN IF get(mode_keymap, key) # None
                  THEN get(mode_keymap, key)
                  ELSE get(mode_keymap, AnyChar)
             ELSE get(mode_keymap, key)

(***************************************************************************)
(* KeyMap::merge                                                           *)
(***************************************************************************)
\* A faulty inner loop: an entry is inserted only where the receiver has none
\* for its key.
RECURSIVE InsertAbsent(_, _, _)
InsertAbsent(key_bindings, other_key_bindings, keys) ==
    IF keys = {} THEN key_bindings
    ELSE LET key == CHOOSE k \in keys : TRUE
         IN  InsertAbsent(
                 IF key \in DOMAIN key_bindings THEN key_bindings
                 ELSE insert(key_bindings, key, other_key_bindings[key]),
                 other_key_bindings, keys \ {key})

\* The inner loop, lines 97-99: every drained entry is inserted.  A HashMap
\* drains in an unspecified order; its keys are distinct.
RECURSIVE InsertAll(_, _, _)
InsertAll(key_bindings, other_key_bindings, keys) ==
    IF keys = {} THEN key_bindings
    ELSE LET key == CHOOSE k \in keys : TRUE
         IN  InsertAll(insert(key_bindings, key, other_key_bindings[key]),
                       other_key_bindings, keys \ {key})

\* A faulty outer loop: a mode the receiver lacks is created instead of
\* skipped.
RECURSIVE MergeModesCreating(_, _, _)
MergeModesCreating(self, key_map, modes) ==
    IF modes = {} THEN self
    ELSE LET mode == CHOOSE m \in modes : TRUE
         IN  MergeModesCreating(
                 IF get(self, mode) # None
                 THEN [self EXCEPT ![mode] =
                          InsertAll(self[mode], key_map[mode],
                                    DOMAIN key_map[mode])]
                 ELSE insert(self, mode, key_map[mode]),
                 key_map, modes \ {mode})

\* The outer loop, lines 94-101, over the modes of key_map still to visit.
RECURSIVE MergeModes(_, _, _)
MergeModes(self, key_map, modes) ==
    IF modes = {} THEN self
    ELSE LET mode == CHOOSE m \in modes : TRUE
         IN  MergeModes(
                 IF get(self, mode) # None
                 THEN [self EXCEPT ![mode] =
                          InsertAll(self[mode], key_map[mode],
                                    DOMAIN key_map[mode])]
                 ELSE self,
                 key_map, modes \ {mode})

merge(self, key_map) == MergeModes(self, key_map, DOMAIN key_map)

(***************************************************************************)
(* The documents of the key map's life: the receiver is built from one,    *)
(* every key map merged into it from another.  All of them construct.      *)
(***************************************************************************)
LifeModeKeys == {YStr("normal"), YStr("insert")}

LifePairKeys ==
    {YStr(<<"k">>), YStr(<<"k","k">>), YStr(<<"_">>),
     YStr(<<"c","t","r","l","-","r">>)}

LifePairValues == {YStr("cursor::move_up"), YStr("cursor::move_down")}

PairCount(modes) ==
    IF Len(modes) = 0 THEN 0
    ELSE IF Len(modes) = 1 THEN Len(modes[1][2].entries)
    ELSE Len(modes[1][2].entries) + Len(modes[2][2].entries)

\* a mode with at most n pairs
LifeModes(n) ==
    UNION { {<<mk, mv>> :
                mk \in LifeModeKeys,
                mv \in ModeValues({}, LifePairKeys, LifePairValues, j)}
            : j \in 0..n }

\* the documents of at most two modes (normal, insert) and at most n pairs
LifeDocs(n) ==
    {YHash(modes) :
        modes \in {<<>>}
            \cup {<<a>> : a \in LifeModes(n)}
            \cup {ms \in {<<a, b>> : a \in LifeModes(n), b \in LifeModes(n)} :
                      ms[1][1] # ms[2][1] /\ PairCount(ms) <= n}}

ReceiverDocs == LifeDocs(MaxReceiverPairs)

\* the key maps handed to merge
Others == {From(d).val : d \in LifeDocs(MaxOtherPairs)}

LookupModes == {"normal", "insert"}

LookupKeys ==
    {Char("k"), Char("j"), AnyChar, Ctrl("r"), Ctrl("s"), Named("Left")}

(***************************************************************************)
(* History: the latest writer of every key, told from the inputs alone.    *)
(***************************************************************************)
Max(S) == CHOOSE x \in S : \A y \in S : y <= x

\* the pairs of a sub-mapping whose token parses to key
WritersOf(pairs, key) ==
    {i \in 1..Len(pairs) : parse_key(pairs[i][1].s).val = key}

\* per key written in a sub-mapping, the command of the last pair in
\* document order whose token parses to it
LastPairs(pairs) ==
    [key \in {parse_key(pairs[i][1].s).val : i \in 1..Len(pairs)} |->
        commands_hash_map[pairs[Max(WritersOf(pairs, key))][2].s]]

\* the same for every mode of a document
LastWriters(d) ==
    [mode \in {d.entries[i][1].s : i \in 1..Len(d.entries)} |->
        LastPairs((CHOOSE e \in {d.entries[i] : i \in 1..Len(d.entries)} :
                       e[1].s = mode)[2].entries)]

\* the latest writers once key_map has been merged: key_map's command where
\* it holds the mode and binds the key, the earlier writer's otherwise
LatestAfter(writers, key_map) ==
    [mode \in DOMAIN writers |->
        IF mode \in DOMAIN key_map
        THEN [key \in (DOMAIN writers[mode]) \cup (DOMAIN key_map[mode]) |->
                 IF key \in DOMAIN key_map[mode]
                 THEN key_map[mode][key]
                 ELSE writers[mode][key]]
        ELSE writers[mode]]

\* the bindings of key_map in modes the receiver lacks
Discarded(self, key_map) ==
    UNION { {<<mode, key>> : key \in DOMAIN key_map[mode]}
            : mode \in (DOMAIN key_map) \ (DOMAIN self) }

(***************************************************************************)
(* Spec: a key map from its construction on, through merges and lookups.   *)
(***************************************************************************)
Init ==
    /\ token = Idle /\ parsed = Idle /\ doc = Idle /\ built = Idle
    /\ other = Idle /\ old = Idle
    /\ \E d \in ReceiverDocs :
          /\ From(d).ok
          /\ keymap = From(d).val
          /\ modes0 = DOMAIN From(d).val
          /\ latest = LastWriters(d)
    /\ dropped = {}
    /\ last = [op |-> "from"]

Merge(key_map) ==
    /\ keymap' = merge(keymap, key_map)
    /\ last' = [op |-> "merge"]
    /\ latest' = LatestAfter(latest, key_map)
    /\ dropped' = dropped \cup Discarded(keymap, key_map)
    /\ UNCHANGED <<token, parsed, doc, built, modes0, other, old>>

CommandFor(mode, key) ==
    /\ last' = [op |-> "command_for", mode |-> mode, key |-> key,
                result |-> command_for(keymap, mode, key)]
    /\ UNCHANGED <<token, parsed, doc, built, keymap, modes0, latest, dropped,
                   other, old>>

Next ==
    \/ \E key_map \in Others : Merge(key_map)
    \/ \E mode \in LookupModes, key \in LookupKeys : CommandFor(mode, key)

Spec == Init /\ [][Next]_vars

(***************************************************************************)
(* SpecMerge: one merge, of every key map into every constructed receiver. *)
(***************************************************************************)
InitMerge ==
    /\ token = Idle /\ parsed = Idle /\ doc = Idle /\ built = Idle
    /\ modes0 = {} /\ latest = Idle /\ dropped = {}
    /\ \E d \in ReceiverDocs : From(d).ok /\ keymap = From(d).val
    /\ other \in Others
    /\ old = keymap
    /\ last = [op |-> "from"]

MergeOther ==
    /\ last.op = "from"
    /\ keymap' = merge(keymap, other)
    /\ last' = [op |-> "merge"]
    /\ UNCHANGED <<token, parsed, doc, built, modes0, latest, dropped, other, old>>

NextMerge == MergeOther

SpecMerge == InitMerge /\ [][NextMerge]_vars

(***************************************************************************)
(* Properties of command_for (checked under Spec).                         *)
(***************************************************************************)
Looked == last.op = "command_for"

\* C1: in a mode the table has, a lookup of Char(x) returns the command bound
\* to Char(x) itself when there is one (wildcard or not), otherwise the
\* command of the mode's wildcard binding when there is one, otherwise nothing.
C1_ExactThenWildcard ==
    (Looked /\ last.mode \in DOMAIN keymap /\ last.key.kind = "Char") =>
        LET bindings == keymap[last.mode]
        IN  /\ last.key \in DOMAIN bindings
                => last.result = Some(bindings[last.key])
            /\ (last.key \notin DOMAIN bindings /\ AnyChar \in DOMAIN bindings)
                => last.result = Some(bindings[AnyChar])
            /\ (last.key \notin DOMAIN bindings /\ AnyChar \notin DOMAIN bindings)
                => last.result = None

\* Char('k') and the wildcard are bound to different commands; Char('k') wins
C1_Witness ==
    /\ Looked
    /\ last.mode \in DOMAIN keymap
    /\ last.key = Char("k")
    /\ Char("k") \in DOMAIN keymap[last.mode]
    /\ AnyChar \in DOMAIN keymap[last.mode]
    /\ keymap[last.mode][Char("k")] # keymap[last.mode][AnyChar]
    /\ last.result = Some(keymap[last.mode][Char("k")])

\* C2: a lookup of a key that is no plain character returns a command only
\* when that very key is bound in the mode; unbound, it returns nothing, also
\* when the mode has a wildcard binding.
C2_NoFallbackForOtherKeys ==
    (Looked /\ last.key.kind # "Char") =>
        /\ (last.mode \in DOMAIN keymap /\ last.key \in DOMAIN keymap[last.mode])
               => last.result = Some(keymap[last.mode][last.key])
        /\ ~(last.mode \in DOMAIN keymap /\ last.key \in DOMAIN keymap[last.mode])
               => last.result = None

\* an unbound Ctrl key in a mode that has a wildcard binding
C2_Witness ==
    /\ Looked
    /\ last.key = Ctrl("s")
    /\ last.mode \in DOMAIN keymap
    /\ AnyChar \in DOMAIN keymap[last.mode]
    /\ last.result = None

(***************************************************************************)
(* Properties of merge.                                                    *)
(***************************************************************************)
Binding(table, mode, key) ==
    IF mode \in DOMAIN table /\ key \in DOMAIN table[mode]
    THEN Some(table[mode][key]) ELSE None

KeysIn(table) == UNION {DOMAIN table[mode] : mode \in DOMAIN table}

\* C3 (under SpecMerge): after receiver.merge(other), in every mode both
\* tables have, a key other binds maps to other's command, and every other key
\* is bound, or unbound, as it was before.
C3_MergeOverwritesOrKeeps ==
    last.op = "merge" =>
        \A mode \in (DOMAIN old) \cap (DOMAIN other) :
        \A key \in KeysIn(old) \cup KeysIn(other) \cup KeysIn(keymap) :
            /\ key \in DOMAIN other[mode]
                   => Binding(keymap, mode, key) = Some(other[mode][key])
            /\ key \notin DOMAIN other[mode]
                   => Binding(keymap, mode, key) = Binding(old, mode, key)

\* one binding overwritten with another command and one kept
C3_Witness ==
    /\ last.op = "merge"
    /\ \E mode \in (DOMAIN old) \cap (DOMAIN other) :
       \E key \in DOMAIN other[mode], kept \in DOMAIN old[mode] :
           /\ key \in DOMAIN old[mode]
           /\ old[mode][key] # other[mode][key]
           /\ keymap[mode][key] = other[mode][key]
           /\ kept \notin DOMAIN other[mode]
           /\ keymap[mode][kept] = old[mode][kept]

\* C4 (under Spec): merges neither create nor remove a mode: the receiver's
\* mode names stay those it had after construction, and a lookup in a mode
\* whose bindings a merge discarded returns nothing, for every key.
C4_MergeKeepsModes ==
    /\ DOMAIN keymap = modes0
    /\ \A d \in dropped : d[1] \notin DOMAIN keymap
    /\ (Looked /\ last.mode \in {d[1] : d \in dropped}) => last.result = None

\* a lookup of a key in a mode, after a merge discarded that very binding
C4_Witness ==
    /\ Looked
    /\ <<last.mode, last.key>> \in dropped
    /\ modes0 # {}
    /\ last.result = None

\* C9 (under Spec): last write wins over construction and every merge since:
\* in every mode of the receiver the bound keys are those ever written, each
\* with the command of its latest writer (the last merged table that has the
\* mode and binds the key, else the last pair of the original sub-mapping
\* whose token parses to the key); and no merge removes a binding.
C9_LastWriteWins ==
    /\ [](\A mode \in DOMAIN keymap :
              mode \in DOMAIN latest /\ keymap[mode] = latest[mode])
    /\ [][\A mode \in DOMAIN keymap :
              /\ mode \in DOMAIN keymap'
              /\ \A key \in DOMAIN keymap[mode] : key \in DOMAIN keymap'[mode]
         ]_vars

\* after a merge, a mode holding more bindings than its document could: some
\* were merged in over the constructed ones
C9_Witness ==
    /\ last.op = "merge"
    /\ \E mode \in DOMAIN keymap :
           /\ Cardinality(DOMAIN keymap[mode]) > MaxReceiverPairs
           /\ keymap[mode] = latest[mode]

====
